---- MODULE Spec2Model ----
(***************************************************************************)
(* Atendens (src/Atendens.py): a Streamlit attendance tracker whose whole  *)
(* state is one CSV file, re-read with pandas.read_csv and re-written with *)
(* DataFrame.to_csv on every operation.                                    *)
(*                                                                         *)
(* The state is the text of the file.  Every operation parses it into a    *)
(* data frame (read_csv: empty and "NA" fields become NaN, a column whose  *)
(* fields are all numerals becomes numeric), works on the parsed cells,    *)
(* and formats the frame back to text.  Text is modelled by string atoms;  *)
(* the string functions the program uses (strip, the NA test, the numeral  *)
(* test, strftime, to_datetime) are tables over the texts of the model.    *)
(***************************************************************************)
EXTENDS Integers, Sequences, FiniteSets

VARIABLES file, today, added

vars == <<file, today, added>>

(***************************************************************************)
(* Bounds of the model.                                                    *)
(***************************************************************************)
\* the store never holds more than MaxRows rows
MaxRows == 3
\* the clock runs over the days 1..MaxDay
MaxDay == 2

(***************************************************************************)
(* Texts.                                                                  *)
(***************************************************************************)
\* CSV_FIELDS, by column position
NAME == 1
DATE == 2
TIME == 3
STATUS == 4
\* the position of the one additional column an uploaded file may carry
NOTE == 5

CSV_FIELDS == {"Student Name", "Date", "Time", "Status"}

ColName(c) ==
  CASE c = NAME -> "Student Name"
    [] c = DATE -> "Date"
    [] c = TIME -> "Time"
    [] c = STATUS -> "Status"
    [] OTHER -> "Note"

AllCols == {NAME, DATE, TIME, STATUS, NOTE}

\* now.strftime("%Y-%m-%d") for the day d of the clock
DateStr(d) ==
  CASE d = 1 -> "2025-01-01"
    [] d = 2 -> "2025-01-02"
    [] d = 3 -> "2025-01-03"
    [] OTHER -> "2025-01-04"

\* pd.to_datetime(text, errors="coerce"): the day, or 0 for NaT
ParseDate(t) ==
  CASE t = "2025-01-01" -> 1
    [] t = "2025-01-02" -> 2
    [] t = "2025-01-03" -> 3
    [] t = "2025-01-04" -> 4
    [] OTHER -> 0

\* now.strftime("%H:%M:%S"): the times of day at which a mark is made
ClockTimes == {"09:00:00"}

\* str.strip()
Strip(s) ==
  CASE s = " " -> ""
    [] s = " Alice " -> "Alice"
    [] OTHER -> s

\* what the user may type into the "Enter student name" box
TextInputs == {"", " ", " Alice ", "NA", "7"}

\* the fields read_csv takes for missing values (keep_default_na)
NAValues == {"", "NA"}

\* the fields read_csv takes for integers, for floats
IsIntText(t) == t \in {"7"}
IsFloatText(t) == t \in {"7.0"}
IsNumText(t) == IsIntText(t) \/ IsFloatText(t)

\* the text to_csv gives an integer once its column has become float64
FloatText(t) == IF t = "7" THEN "7.0" ELSE t

\* the ascending order sorted() puts the names of the model in
Collation == <<" ", "7", "7.0", "Alice", "NA">>

Rank(s) == CHOOSE i \in 1..Len(Collation) : Collation[i] = s

(***************************************************************************)
(* Data frames.  A cell is NaN, or a str, int or float with its text.  A   *)
(* frame has a set of columns, a dtype per column and rows of five cells   *)
(* (the cell of a column the frame does not have is NaN).                  *)
(***************************************************************************)
NaN == [k |-> "nan", v |-> ""]
StrCell(s) == [k |-> "str", v |-> s]

IsNaN(cell) == cell.k = "nan"

\* the dtype read_csv infers for column c of the rows of a CSV text
InferDtype(rows, c) ==
  LET idx == 1..Len(rows)
      nonNA == {i \in idx : rows[i][c] \notin NAValues}
  IN  IF nonNA = {} THEN "float64"
      ELSE IF \A i \in nonNA : IsIntText(rows[i][c])
           THEN (IF nonNA = idx THEN "int64" ELSE "float64")
      ELSE IF \A i \in nonNA : IsNumText(rows[i][c]) THEN "float64"
      ELSE "object"

ParseCell(dtype, t) ==
  IF t \in NAValues THEN NaN
  ELSE CASE dtype = "int64" -> [k |-> "int", v |-> t]
         [] dtype = "float64" -> [k |-> "float", v |-> FloatText(t)]
         [] OTHER -> StrCell(t)

\* one line of the text as a row of cells; a column the text lacks is NaN
ParseRow(cols, dt, r) ==
  LET P(c) == IF ColName(c) \in cols THEN ParseCell(dt[c], r[c]) ELSE NaN
  IN  <<P(NAME), P(DATE), P(TIME), P(STATUS), P(NOTE)>>

RECURSIVE ParseRows(_, _, _)
ParseRows(cols, dt, rows) ==
  IF rows = <<>> THEN <<>>
  ELSE <<ParseRow(cols, dt, Head(rows))>> \o ParseRows(cols, dt, Tail(rows))

\* pd.read_csv of a CSV text [cols, rows]
read_csv(csv) ==
  LET D(c) == IF ColName(c) \in csv.cols THEN InferDtype(csv.rows, c)
              ELSE "float64"
      dt == <<D(NAME), D(DATE), D(TIME), D(STATUS), D(NOTE)>>
  IN  [cols |-> csv.cols, dtype |-> dt,
       rows |-> ParseRows(csv.cols, dt, csv.rows)]

\* a row of cells as a line of text: NaN is written as the empty field
FormatRow(r) == <<r[NAME].v, r[DATE].v, r[TIME].v, r[STATUS].v, r[NOTE].v>>

RECURSIVE FormatRows(_)
FormatRows(rows) ==
  IF rows = <<>> THEN <<>>
  ELSE <<FormatRow(Head(rows))>> \o FormatRows(Tail(rows))

\* DataFrame.to_csv(index=False)
to_csv(df) == [cols |-> df.cols, rows |-> FormatRows(df.rows)]

\* load_data: the file is created with the header alone when absent, so an
\* absent file and a header-only file load alike
load_data(f) == read_csv(f)

save_data(df) == to_csv(df)

\* the dtype pd.concat gives a column of two frames with rows
UnifyDtype(d1, d2) ==
  IF d1 = "int64" /\ d2 = "int64" THEN "int64"
  ELSE IF d1 \in {"int64", "float64"} /\ d2 \in {"int64", "float64"}
       THEN "float64"
  ELSE "object"

CastCell(dtype, cell) ==
  IF dtype = "float64" /\ cell.k = "int"
  THEN [k |-> "float", v |-> FloatText(cell.v)]
  ELSE cell

CastRow(dt, r) ==
  <<CastCell(dt[NAME], r[NAME]), CastCell(dt[DATE], r[DATE]),
    CastCell(dt[TIME], r[TIME]), CastCell(dt[STATUS], r[STATUS]),
    CastCell(dt[NOTE], r[NOTE])>>

RECURSIVE CastRows(_, _)
CastRows(dt, rows) ==
  IF rows = <<>> THEN <<>>
  ELSE <<CastRow(dt, Head(rows))>> \o CastRows(dt, Tail(rows))

\* pd.concat([a, b], ignore_index=True): the union of the columns, a's rows
\* then b's
concat(a, b) ==
  LET D(c) == IF Len(a.rows) = 0 THEN b.dtype[c]
              ELSE IF Len(b.rows) = 0 THEN a.dtype[c]
              ELSE UnifyDtype(a.dtype[c], b.dtype[c])
      dt == <<D(NAME), D(DATE), D(TIME), D(STATUS), D(NOTE)>>
  IN  [cols |-> a.cols \cup b.cols, dtype |-> dt,
       rows |-> CastRows(dt, a.rows \o b.rows)]

\* the rows that equal none of the rows seen before them
RECURSIVE DropSeen(_, _)
DropSeen(seen, rows) ==
  IF rows = <<>> THEN <<>>
  ELSE IF Head(rows) \in seen THEN DropSeen(seen, Tail(rows))
  ELSE <<Head(rows)>> \o DropSeen(seen \cup {Head(rows)}, Tail(rows))

\* the import without drop_duplicates()
keep_duplicates(df) == df

\* DataFrame.drop_duplicates(): the first of equal rows is kept (NaN equals
\* NaN here)
drop_duplicates(df) == [df EXCEPT !.rows = DropSeen({}, df.rows)]

\* series == value, elementwise: NaN equals nothing, a number no str
CellEq(cell, arg) == ~IsNaN(cell) /\ ~IsNaN(arg) /\ cell = arg

\* DataFrame([new_row]) of four str fields
NewRowFrame(name, date, time, status) ==
  [cols |-> CSV_FIELDS,
   dtype |-> <<"object", "object", "object", "object", "float64">>,
   rows |-> <<<<StrCell(name), StrCell(date), StrCell(time), StrCell(status),
                NaN>>>>]

(***************************************************************************)
(* The functions of the program.                                           *)
(***************************************************************************)
\* name in df["Student Name"].unique()
NameKnown(df, name) ==
  \E i \in 1..Len(df.rows) : CellEq(df.rows[i][NAME], StrCell(name))

add_student(f, name) ==
  LET df == load_data(f)
  IN  IF ~NameKnown(df, name)
      THEN [ret |-> TRUE,
            file |-> save_data(concat(df, NewRowFrame(name, "", "", "")))]
      ELSE [ret |-> FALSE, file |-> f]

\* already_marked with Absent forgotten
already_marked_present_only(df, name, date_str) ==
  \E i \in 1..Len(df.rows) :
     /\ CellEq(df.rows[i][NAME], name)
     /\ CellEq(df.rows[i][DATE], StrCell(date_str))
     /\ CellEq(df.rows[i][STATUS], StrCell("Present"))

already_marked(df, name, date_str) ==
  \E i \in 1..Len(df.rows) :
     /\ CellEq(df.rows[i][NAME], name)
     /\ CellEq(df.rows[i][DATE], StrCell(date_str))
     /\ \/ CellEq(df.rows[i][STATUS], StrCell("Present"))
        \/ CellEq(df.rows[i][STATUS], StrCell("Absent"))

\* name is a cell of the loaded frame (the selectbox offers get_students())
mark_attendance(f, name, status, date_str, time_str) ==
  LET df == load_data(f)
  IN  IF already_marked(df, name, date_str)
      THEN [ret |-> FALSE, file |-> f]
      ELSE [ret |-> TRUE,
            file |-> save_data(concat(df,
                       NewRowFrame(name.v, date_str, time_str, status)))]

Range(s) == {s[i] : i \in 1..Len(s)}

\* sorted() of a sequence of distinct names
RECURSIVE SortNames(_)
SortNames(S) ==
  IF S = {} THEN <<>>
  ELSE LET m == CHOOSE x \in S : \A y \in S : Rank(x) <= Rank(y)
       IN  <<m>> \o SortNames(S \ {m})

\* get_students: s.strip() raises AttributeError on a number, which the
\* column holds when read_csv has made it numeric
get_students(f) ==
  LET df == load_data(f)
      vals == {df.rows[i][NAME] : i \in 1..Len(df.rows)} \ {NaN}
  IN  IF \E x \in vals : x.k # "str"
      THEN [ok |-> FALSE, names |-> <<>>]
      ELSE [ok |-> TRUE,
            names |-> SortNames({x.v : x \in {y \in vals : Strip(y.v) # ""}})]

\* the rows with a date (get_attendance_history, before the student is
\* selected)
RECURSIVE Dated(_)
Dated(rows) ==
  IF rows = <<>> THEN <<>>
  ELSE IF ~IsNaN(Head(rows)[DATE]) /\ Head(rows)[DATE] # StrCell("")
       THEN <<Head(rows)>> \o Dated(Tail(rows))
       ELSE Dated(Tail(rows))

get_attendance_history_all(f) == Dated(load_data(f).rows)

\* validate_student_name without the strip
validate_nonempty_only(name) == name # ""

validate_student_name(name) == name # "" /\ Strip(name) # ""

\* df[~(mask)]: the rows that differ from the given values in a field
RECURSIVE DropMatching(_, _, _, _, _)
DropMatching(rows, student_name, date, time, status) ==
  IF rows = <<>> THEN <<>>
  ELSE LET r == Head(rows)
           rest == DropMatching(Tail(rows), student_name, date, time, status)
       IN  IF /\ CellEq(r[NAME], student_name)
              /\ CellEq(r[DATE], date)
              /\ CellEq(r[TIME], time)
              /\ CellEq(r[STATUS], status)
           THEN rest
           ELSE <<r>> \o rest

delete_attendance_record(f, student_name, date, time, status) ==
  LET df == load_data(f)
  IN  save_data([df EXCEPT
                   !.rows = DropMatching(df.rows, student_name, date, time,
                                         status)])

export_csv(f) == to_csv(load_data(f))

\* the schema test with "any" for "all"
schema_ok_any(cols) == CSV_FIELDS \cap cols # {}

\* set(CSV_FIELDS).issubset(df.columns)
schema_ok(cols) == CSV_FIELDS \subseteq cols

\* an upload is a CSV text, or one read_csv cannot parse (parsed = FALSE)
import_csv(f, uploaded) ==
  IF ~uploaded.parsed
  THEN [ok |-> FALSE, msg |-> "Import failed", file |-> f]
  ELSE LET df == read_csv(uploaded.csv)
       IN  IF schema_ok(df.cols)
           THEN [ok |-> TRUE, msg |-> "Import successful.",
                 file |-> save_data(drop_duplicates(concat(load_data(f), df)))]
           ELSE [ok |-> FALSE, msg |-> "CSV schema mismatch.", file |-> f]

\* attendance_stats: the rows with a date, grouped by name and status
\* (groupby leaves out the rows whose key is NaN), one result row per name
\* in ascending order.  The percentage Present / (Present + Absent) * 100 is
\* kept as the fraction n / d; d = 0 is the NaN of 0 / 0.
attendance_stats(f) ==
  LET df == load_data(f)
      dated == {i \in 1..Len(df.rows) :
                  ~IsNaN(df.rows[i][DATE]) /\ df.rows[i][DATE] # StrCell("")}
      grouped == {i \in dated :
                    ~IsNaN(df.rows[i][NAME]) /\ ~IsNaN(df.rows[i][STATUS])}
      names == SortNames({df.rows[i][NAME].v : i \in grouped})
      Count(n, s) == Cardinality({i \in grouped :
                       df.rows[i][NAME].v = n /\ df.rows[i][STATUS] = StrCell(s)})
  IN  [k \in 1..Len(names) |->
         [name |-> names[k],
          present |-> Count(names[k], "Present"),
          absent |-> Count(names[k], "Absent"),
          pct |-> [n |-> Count(names[k], "Present") * 100,
                   d |-> Count(names[k], "Present") + Count(names[k], "Absent")]]]

\* get_month_year_options and the month selectbox: a date to_datetime cannot
\* parse gives the month NaN, on which format_func raises
dashboard_renders(f) ==
  LET df == load_data(f)
  IN  \A i \in 1..Len(df.rows) :
         ~IsNaN(df.rows[i][DATE]) => ParseDate(df.rows[i][DATE].v) # 0

(***************************************************************************)
(* The files a user may upload.                                            *)
(***************************************************************************)
UploadNames == {"Alice"}
UploadDates == {DateStr(1)}
UploadTimes == {"10:30:00"}
UploadStatuses == {"Present", ""}
UploadNotes == {"x"}

UploadRows(cols) ==
  {<<n, d, t, s, x>> :
     n \in UploadNames, d \in UploadDates, t \in UploadTimes,
     s \in UploadStatuses,
     x \in (IF "Note" \in cols THEN UploadNotes ELSE {""})}

\* the column sets that hold the four fields, and two that do not
GoodCols == {CSV_FIELDS, CSV_FIELDS \cup {"Note"}}
BadCols == {CSV_FIELDS \ {"Status"}, {"Student Name", "Note"}}

\* a header with one data row, or with one data row twice
UploadsOf(cs) ==
  {[parsed |-> TRUE, csv |-> [cols |-> cs, rows |-> <<r>>]] :
     r \in UploadRows(cs)}
  \cup {[parsed |-> TRUE, csv |-> [cols |-> cs, rows |-> <<r, r>>]] :
           r \in UploadRows(cs)}

\* a row of a file that lacks columns: their fields are not there
Project(cs, r) ==
  LET P(c) == IF ColName(c) \in cs THEN r[c] ELSE ""
  IN  <<P(NAME), P(DATE), P(TIME), P(STATUS), P(NOTE)>>

BadUploads ==
  {[parsed |-> TRUE, csv |-> [cols |-> cs, rows |-> <<>>]] : cs \in BadCols}
  \cup {[parsed |-> TRUE, csv |-> [cols |-> cs, rows |-> <<Project(cs, r)>>]] :
           cs \in BadCols, r \in UploadRows(CSV_FIELDS \cup {"Note"})}

\* an empty file (read_csv raises), a header alone, or a header with rows
Uploads ==
  {[parsed |-> FALSE, csv |-> [cols |-> {}, rows |-> <<>>]]}
  \cup {[parsed |-> TRUE, csv |-> [cols |-> cs, rows |-> <<>>]] :
           cs \in GoodCols}
  \cup UNION {UploadsOf(cs) : cs \in GoodCols}
  \cup BadUploads

(***************************************************************************)
(* The state machine: one action per button of the page.  The script runs  *)
(* top to bottom on every click, so a handler is reached only when the     *)
(* code above it raises nothing.                                           *)
(***************************************************************************)
EmptyFile == [cols |-> CSV_FIELDS, rows |-> <<>>]

\* added: the names for which "Add Student" has answered "added"
Init ==
  /\ file = EmptyFile
  /\ today = 1
  /\ added = {}

\* tab1: the "Add Student" button: what the click answers, and the file it
\* leaves
AddStudentClick(f, new_student) ==
  IF validate_student_name(new_student)
  THEN LET r == add_student(f, Strip(new_student))
       IN  [answer |-> IF r.ret THEN "Added" ELSE "AlreadyExists",
            file |-> r.file]
  ELSE [answer |-> "InvalidName", file |-> f]

AddStudent ==
  \E new_student \in TextInputs :
     LET r == AddStudentClick(file, new_student)
     IN  /\ Len(r.file.rows) <= MaxRows
         /\ file' = r.file
         /\ added' = IF r.answer = "Added"
                     THEN added \cup {Strip(new_student)}
                     ELSE added
         /\ UNCHANGED today

\* tab2: the "Mark Present" and "Mark Absent" buttons are drawn, for the
\* students of get_students(), when the script gets that far
MarkOffered(f) ==
  LET students == get_students(f)
  IN  IF students.ok THEN Range(students.names) ELSE {}

MarkAttendance ==
  \E selected_student \in MarkOffered(file), status \in {"Present", "Absent"},
     time_str \in ClockTimes :
     LET r == mark_attendance(file, StrCell(selected_student), status,
                              DateStr(today), time_str)
     IN  /\ Len(r.file.rows) <= MaxRows
         /\ file' = r.file
         /\ UNCHANGED <<today, added>>

\* tab3: the records "Delete Selected Record" can be clicked on: the rows
\* of the history of a listed student, one month and year at a time
DeleteOffered(f) ==
  LET students == get_students(f)
      listed == Range(students.names)
  IN  IF students.ok /\ dashboard_renders(f)
      THEN {r \in Range(get_attendance_history_all(f)) : r[NAME].v \in listed}
      ELSE {}

\* the click passes the date as strftime of the parsed date and the other
\* three fields as the cells of the record
DeleteClick(f, rec) ==
  delete_attendance_record(f, rec[NAME],
    StrCell(DateStr(ParseDate(rec[DATE].v))), rec[TIME], rec[STATUS])

DeleteRecord ==
  \E rec \in DeleteOffered(file) :
     /\ file' = DeleteClick(file, rec)
     /\ UNCHANGED <<today, added>>

\* tab4: the uploader is drawn when the script gets that far
ImportOffered(f) == get_students(f).ok /\ dashboard_renders(f)

ImportCsv ==
  /\ ImportOffered(file)
  /\ \E uploaded \in Uploads :
        LET r == import_csv(file, uploaded)
        IN  /\ Len(r.file.rows) <= MaxRows
            /\ file' = r.file
  /\ UNCHANGED <<today, added>>

\* midnight
NextDay ==
  /\ today < MaxDay
  /\ today' = today + 1
  /\ UNCHANGED <<file, added>>

Next == AddStudent \/ MarkAttendance \/ DeleteRecord \/ ImportCsv \/ NextDay

Spec == Init /\ [][Next]_vars

\* the same machine when no uploaded file has a column beyond the four
ImportCsvFour ==
  /\ ImportOffered(file)
  /\ \E uploaded \in Uploads :
        /\ uploaded.csv.cols \subseteq CSV_FIELDS
        /\ LET r == import_csv(file, uploaded)
           IN  /\ Len(r.file.rows) <= MaxRows
               /\ file' = r.file
  /\ UNCHANGED <<today, added>>

NextFour ==
  AddStudent \/ MarkAttendance \/ DeleteRecord \/ ImportCsvFour \/ NextDay

SpecFour == Init /\ [][NextFour]_vars

(***************************************************************************)
(* What the claims speak of: the store as every operation sees it, which   *)
(* is the text export_csv gives.                                           *)
(***************************************************************************)
View(f) == export_csv(f).rows

\* the four fields of a row of text
Four(r) == <<r[NAME], r[DATE], r[TIME], r[STATUS]>>

Marks == {"Present", "Absent"}

\* how often x occurs in the sequence s
Count(s, x) == Cardinality({i \in 1..Len(s) : s[i] = x})

\* the rows of text that are no repetition of an earlier row, in order
RECURSIVE Collapse(_)
Collapse(rows) ==
  IF rows = <<>> THEN <<>>
  ELSE LET front == Collapse(SubSeq(rows, 1, Len(rows) - 1))
           last == rows[Len(rows)]
       IN  IF \E i \in 1..(Len(rows) - 1) : rows[i] = last THEN front
           ELSE Append(front, last)

\* the rows of text whose four fields are not the given ones, in order
RECURSIVE Without(_, _)
Without(rows, four) ==
  IF rows = <<>> THEN <<>>
  ELSE IF Four(Head(rows)) = four THEN Without(Tail(rows), four)
  ELSE <<Head(rows)>> \o Without(Tail(rows), four)

IsBlank(s) == s \in {"", " "}

(***************************************************************************)
(* C1.  In every reachable store, a student has at most one row with       *)
(* status Present or Absent for a date.                                    *)
(***************************************************************************)
C1_OneMarkPerStudentAndDate ==
  LET rows == View(file)
  IN  \A i, j \in 1..Len(rows) :
         (/\ i < j
          /\ rows[i][NAME] = rows[j][NAME]
          /\ rows[i][DATE] = rows[j][DATE]
          /\ rows[i][STATUS] \in Marks)
         => rows[j][STATUS] \notin Marks

(***************************************************************************)
(* C2.  Marking a student who has a Present or Absent row of today is      *)
(* refused and leaves the file as it is; marking any other student is      *)
(* accepted and puts one row {student, today, now, status} after the rows  *)
(* the store held.                                                         *)
(***************************************************************************)
HasMarkOn(rows, student, date_str) ==
  \E i \in 1..Len(rows) :
     /\ rows[i][NAME] = student
     /\ rows[i][DATE] = date_str
     /\ rows[i][STATUS] \in Marks

C2_MarkOncePerDay ==
  \A student \in MarkOffered(file), status \in Marks, time_str \in ClockTimes :
     LET r == mark_attendance(file, StrCell(student), status, DateStr(today),
                              time_str)
         rows == View(file)
     IN  IF HasMarkOn(rows, student, DateStr(today))
         THEN ~r.ret /\ r.file = file
         ELSE /\ r.ret
              /\ r.file.cols = file.cols
              /\ View(r.file) =
                   Append(rows,
                          <<student, DateStr(today), time_str, status, "">>)

\* a student marked today, by the button: a second mark is refused
C2_Witness ==
  \E student \in MarkOffered(file), time_str \in ClockTimes :
     /\ HasMarkOn(View(file), student, DateStr(today))
     /\ \E i \in 1..Len(View(file)) :
           /\ View(file)[i][NAME] = student
           /\ View(file)[i][TIME] = time_str
     /\ \E other \in MarkOffered(file) :
           ~HasMarkOn(View(file), other, DateStr(today))
     /\ today > 1

(***************************************************************************)
(* C3.  Adding a valid name the store does not know answers "added", and   *)
(* adding it again answers "already exists", changes nothing and leaves    *)
(* the name once in the list of students.                                  *)
(***************************************************************************)
C3_AddTwice ==
  \A n \in TextInputs :
     (/\ ~IsBlank(n)
      /\ \A i \in 1..Len(View(file)) : View(file)[i][NAME] # Strip(n))
     => LET once == AddStudentClick(file, n)
            twice == AddStudentClick(once.file, n)
        IN  /\ once.answer = "Added"
            /\ twice.answer = "AlreadyExists"
            /\ twice.file = once.file
            /\ get_students(twice.file).ok
            /\ Count(get_students(twice.file).names, Strip(n)) = 1

(***************************************************************************)
(* C4.  An empty or blank name is answered "invalid" and changes nothing;  *)
(* any other name is added, when it is added, as one placeholder row with  *)
(* the name stripped of its surrounding blanks.                            *)
(***************************************************************************)
C4_InvalidNameAndTrim ==
  \A n \in TextInputs :
     LET r == AddStudentClick(file, n)
     IN  IF IsBlank(n)
         THEN r.answer = "InvalidName" /\ r.file = file
         ELSE /\ r.answer \in {"Added", "AlreadyExists"}
              /\ r.answer = "Added" =>
                    /\ Len(r.file.rows) = Len(file.rows) + 1
                    /\ r.file.rows[Len(file.rows) + 1]
                         = <<Strip(n), "", "", "", "">>

\* " Alice " was typed and added, and rows have followed
C4_Witness ==
  /\ "Alice" \in added
  /\ Len(file.rows) >= 2
  /\ file.rows[1] = <<"Alice", "", "", "", "">>

(***************************************************************************)
(* C5.  Exporting the store and importing the export into an empty store   *)
(* gives the rows of the store, in their order, every repeated row once.   *)
(***************************************************************************)
RoundTrip(f) ==
  import_csv(EmptyFile, [parsed |-> TRUE, csv |-> export_csv(f)])

C6_ImportIsUnionOnFourFields ==
  ImportOffered(file) =>
    \A uploaded \in Uploads :
       (uploaded.parsed /\ CSV_FIELDS \subseteq uploaded.csv.cols)
       => LET r == import_csv(file, uploaded)
              got == View(r.file)
              had == View(file)
              new == View(uploaded.csv)
          IN  /\ r.ok
              /\ {Four(got[i]) : i \in 1..Len(got)}
                   = {Four(had[i]) : i \in 1..Len(had)}
                     \cup {Four(new[i]) : i \in 1..Len(new)}
              /\ \A i, j \in 1..Len(got) :
                    i # j => Four(got[i]) # Four(got[j])

(***************************************************************************)
(* C7.  An upload that lacks one of the four fields is refused with the    *)
(* schema-mismatch message and the file is left as it is.                  *)
(***************************************************************************)
C7_SchemaMismatch ==
  \A uploaded \in Uploads :
     (uploaded.parsed /\ ~(CSV_FIELDS \subseteq uploaded.csv.cols))
     => LET r == import_csv(file, uploaded)
        IN  ~r.ok /\ r.msg = "CSV schema mismatch." /\ r.file = file

\* a store with rows, to which a file with rows but no Status column is
\* offered
C7_Witness ==
  /\ ImportOffered(file)
  /\ Len(file.rows) >= 2
  /\ \E uploaded \in BadUploads :
        /\ Len(uploaded.csv.rows) > 0
        /\ "Status" \notin uploaded.csv.cols
        /\ ~import_csv(file, uploaded).ok

(***************************************************************************)
(* C8.  Deleting a record removes the rows whose four fields are those of  *)
(* the record and leaves every other row, in order.                        *)
(***************************************************************************)
C8_DeleteRemovesTheRecord ==
  \A rec \in DeleteOffered(file) :
     /\ DeleteClick(file, rec).cols = file.cols
     /\ View(DeleteClick(file, rec))
          = Without(View(file), Four(FormatRow(rec)))

(***************************************************************************)
(* C9.  The overall statistics have one row for every student with a row   *)
(* that has a date, with the numbers of that student's dated Present and   *)
(* Absent rows and the percentage present * 100 / (present + absent).      *)
(***************************************************************************)
DatedRows(rows, student, status) ==
  {i \in 1..Len(rows) :
     /\ rows[i][NAME] = student
     /\ rows[i][DATE] # ""
     /\ rows[i][STATUS] \in status}

C9_OverallStats ==
  get_students(file).ok =>
    LET stats == attendance_stats(file)
        rows == View(file)
        students == {rows[i][NAME] : i \in 1..Len(rows)} \ {""}
        present(s) == Cardinality(DatedRows(rows, s, {"Present"}))
        absent(s) == Cardinality(DatedRows(rows, s, {"Absent"}))
    IN  /\ \A s \in students :
              DatedRows(rows, s, {"Present", "Absent", ""}) # {}
              => /\ Cardinality({k \in 1..Len(stats) : stats[k].name = s}) = 1
                 /\ \A k \in 1..Len(stats) :
                       stats[k].name = s
                       => /\ stats[k].present = present(s)
                          /\ stats[k].absent = absent(s)
                          /\ present(s) + absent(s) > 0
                              => /\ stats[k].pct.d # 0
                                 /\ stats[k].pct.n * (present(s) + absent(s))
                                      = present(s) * 100 * stats[k].pct.d
        /\ \A k \in 1..Len(stats) :
              DatedRows(rows, stats[k].name, {"Present", "Absent", ""}) # {}

(***************************************************************************)
(* C10.  A name that "Add Student" has answered "added" for is in the list *)
(* of students from then on.                                               *)
(***************************************************************************)
C10_AddedStaysListed ==
  \A n \in added :
     get_students(file).ok /\ n \in Range(get_students(file).names)

====
